---- MODULE Spec2Model ----
(***************************************************************************)
(* Model of the flynn deployer's one-by-one strategy                       *)
(* (deployer/strategies/one-by-one.go), of the job-event wait it blocks on *)
(* and of the controller's deployment repository and deployment event     *)
(* stream (controller/deployment.go).                                      *)
(***************************************************************************)
EXTENDS Integers, Sequences, FiniteSets, TLC

\* ------------------------------------------------------------------ bounds
MaxCount == 2      \* largest desired count of one process type at the start
MaxIgnored == 1    \* events one wait may ignore before the model stops feeding
MaxNeed == 2       \* largest required count in an expected set (matcher runs)
MaxFeed == 4       \* events fed to one stand-alone matcher run
MaxLog == 2        \* deployment events appended to the log
MaxSent == 3       \* records (events and keep-alives) written to one stream
MaxQueue == 1      \* notifications waiting in listener.Notify
MaxCallbacks == 2  \* listener lifecycle callbacks delivered to one stream
MaxIds == 2        \* distinct deployment uuids
MaxAdds == 2       \* calls of DeploymentRepo.Add

Types == {"web", "worker"}
States == {"up", "down", "crashed"}
Releases == {"old", "new"}

\* A job event as the controller streams it (ct.JobEvent: type, state, release).
JobEvent == [type : Types, state : States, release : Releases]

NoEvent == [type |-> "", state |-> "", release |-> ""]

\* ------------------------------------------------------- map[string]int
\* A Go map is a function whose DOMAIN is its key set; a missing key reads 0.
EmptyMap == [x \in {} |-> 0]

Get(m, t) == IF t \in DOMAIN m THEN m[t] ELSE 0

Put(m, t, v) == [x \in (DOMAIN m) \cup {t} |-> IF x = t THEN v ELSE m[x]]

IncrBy2(m, t) == Put(m, t, Get(m, t) + 2)

\* newFormation[typ]++
Incr(m, t) == Put(m, t, Get(m, t) + 1)

DecrNone(m, t) == Put(m, t, Get(m, t))

\* oldFormation[typ]--
Decr(m, t) == Put(m, t, Get(m, t) - 1)

Range(q) == {q[k] : k \in 1..Len(q)}

RECURSIVE SumOver(_, _)
SumOver(m, S) ==
    IF S = {} THEN 0
    ELSE LET t == CHOOSE x \in S : TRUE IN m[t] + SumOver(m, S \ {t})

\* Total number of units of a formation.
Total(m) == SumOver(m, DOMAIN m)

\* ------------------------------------------------- the job-event matcher
\* waitForJobEvents and the jobEvents type are not among the sources; the
\* matcher is modelled from section 4.2 of the specification.  An expected
\* set maps type -> state -> remaining count.

\* jobEvents{typ: {state: 1}}
ExpectOne(t, s) == [x \in {t} |-> [y \in {s} |-> 1]]

Remaining(exp, t, s) ==
    IF t \in DOMAIN exp /\ s \in DOMAIN exp[t] THEN exp[t][s] ELSE 0

Satisfied(exp) == \A t \in DOMAIN exp : \A s \in DOMAIN exp[t] : exp[t][s] = 0

\* The terminal-failure state aborts the wait, whatever the type.
IsCrash(exp, ev) == ev.state = "crashed"

MatchesAny(exp, ev) == ev.type \in DOMAIN exp

\* The event counts towards the expectations.
Matches(exp, ev) == Remaining(exp, ev.type, ev.state) > 0

\* The expected set after consuming one event.
Consume(exp, ev) ==
    IF ~IsCrash(exp, ev) /\ Matches(exp, ev)
    THEN [exp EXCEPT ![ev.type][ev.state] = @ - 1]
    ELSE exp

\* The wait's result when the source is closed under it.
OnClosed(exp) == "closed"

\* The wait's state after consuming one event: "crashed", "ok" or "waiting".
StatusAfter(exp, ev) ==
    IF IsCrash(exp, ev) THEN "crashed"
    ELSE IF Satisfied(Consume(exp, ev)) THEN "ok"
    ELSE "waiting"

\* The error a failed wait returns.
WaitErr(status) == IF status = "crashed" THEN "ErrCrashed" ELSE "ErrClosed"

\* ------------------------------------------------------------ variables
VARIABLES
    pc,            \* position of oneByOne
    ret,           \* what oneByOne returned ("nil" while running or on success)
    callErr,       \* the error a collaborator's call gave oneByOne ("nil" if none)
    stOld,         \* formation the controller holds for the old release
    stNew,         \* formation last put for the new release (none yet: empty)
    f0,            \* the old release's formation when the deployment started
    oldFormation,  \* local: f.Processes
    newFormation,  \* local
    todo,          \* keys of f.Processes the range has not visited yet
    typ, num, i,   \* loop variables
    expected,      \* the expected set of the wait in flight
    consumed,      \* events the wait in flight has taken from jobStream
    lastEv,        \* the last event taken from jobStream
    jobStream,     \* "none", "open" or "closed"
    upWaits,       \* per type: successful waits for one up event
    downWaits,     \* per type: successful waits for one down event
    nPuts,         \* PutFormation calls issued
    events,        \* DeploymentEvents sent on the events channel
    orderA,        \* the keys of f.Processes in the order this run visited them
    orderB         \* the same for a second run from the same formation

engineVars == <<pc, ret, callErr, stOld, stNew, f0, oldFormation, newFormation,
                todo, typ, num, i, expected, consumed, lastEv, jobStream,
                upWaits, downWaits, nPuts, events, orderA, orderB>>

\* A stand-alone run of the matcher on one expected set.
VARIABLES
    wStart,        \* the expected set the wait was called with
    wExpected,     \* what is still required
    wTrace,        \* the events the wait has consumed, in order
    wStatus        \* "waiting", "ok", "crashed" or "closed"

waitVars == <<wStart, wExpected, wTrace, wStatus>>

\* streamDeploymentEvents and the deployment_events table.
VARIABLES
    log,           \* deployment_events: log[k] is the deployment of event id k
    sPc,           \* position of streamDeploymentEvents ("returning": a
                   \* return has been taken, the deferred calls have not run)
    pending,       \* rows of listEvents not sent yet
    currID,        \* var currID int64
    sent,          \* records written to the response: event ids, 0 = keep-alive
    sErr,          \* the outer err the deferred http.Error reads
    notifyQ,       \* listener.Notify: payloads of the notifications waiting
    lastWake,      \* id parsed from the last notification taken
    nFetch,        \* calls of repo.getEvent
    connected,     \* the connected channel is closed
    done,          \* the done channel is closed
    nCallbacks,    \* listener callbacks delivered
    owed,          \* ids appended while listening whose notification is due
    failedFirst    \* a connection attempt failed before connected was closed

streamVars == <<log, sPc, pending, currID, sent, sErr, notifyQ, lastWake,
                nFetch, connected, done, nCallbacks, owed, failedFirst>>

\* DeploymentRepo, the deployments table and the work queue
VARIABLES
    rows,          \* deployments table: uuid -> row
    jobs,          \* the work queue, in enqueue order
    aPc,           \* position of Add: "ready" (not running) or "inserted"
    aRet,          \* what the last Add returned ("none" before the first)
    input,         \* the deployment as the caller passed it to Add
    dep,           \* the caller's struct, which Add writes through the pointer
    nAdds,         \* calls of Add so far (also the database clock)
    nEnq,          \* successful Enqueue calls per uuid
    enq0,          \* nEnq when the current Add began
    failedEnq,     \* uuids whose Enqueue failed after the insert
    executed,      \* uuids a worker took from the queue
    gotArg,        \* id passed to the last Get since the last Add
    got,           \* deployment the last Get returned
    gotErr         \* error the last Get returned

repoVars == <<rows, jobs, aPc, aRet, input, dep, nAdds, nEnq, enq0, failedEnq,
              executed, gotArg, got, gotErr>>

vars == <<engineVars, waitVars, streamVars, repoVars>>

\* Ids are uuids in one of two text forms; the empty string is NoID.
UUIDs == 1..MaxIds
Formats == {"dashed", "clean"}
NoID == [u |-> 0, fmt |-> "none"]
WellFormed == [u : UUIDs, fmt : Formats]
Strategies == {"one-by-one", "all-at-once"}
Null == 0

\* ct.Deployment zero value (d := &ct.Deployment{})
ZeroDeployment ==
    [ID |-> NoID, AppID |-> "", OldReleaseID |-> NoID, NewReleaseID |-> NoID,
     Strategy |-> "", CreatedAt |-> Null, FinishedAt |-> Null]

\* The repository while another part of the program is being run.
IdleRepo ==
    /\ rows = <<>>
    /\ jobs = <<>>
    /\ aPc = "idle"
    /\ aRet = "none"
    /\ input = ZeroDeployment
    /\ dep = ZeroDeployment
    /\ nAdds = 0
    /\ nEnq = [u \in UUIDs |-> 0]
    /\ enq0 = [u \in UUIDs |-> 0]
    /\ failedEnq = {}
    /\ executed = {}
    /\ gotArg = NoID
    /\ got = ZeroDeployment
    /\ gotErr = "none"

Waits == {"waitUp", "waitDown"}

Formations == UNION {[D -> 0..MaxCount] : D \in SUBSET Types}

InitEngine ==
    /\ pc = "start"
    /\ ret = "nil"
    /\ callErr = "nil"
    /\ stOld \in Formations
    /\ stNew = EmptyMap
    /\ f0 = stOld
    /\ oldFormation = EmptyMap
    /\ newFormation = EmptyMap
    /\ todo = {}
    /\ typ = ""
    /\ num = 0
    /\ i = 0
    /\ expected = EmptyMap
    /\ consumed = 0
    /\ lastEv = NoEvent
    /\ jobStream = "none"
    /\ upWaits = [t \in Types |-> 0]
    /\ downWaits = [t \in Types |-> 0]
    /\ nPuts = 0
    /\ events = <<>>
    /\ orderA = <<>>
    /\ orderB = <<>>

\* ------------------------------------------------------------- oneByOne
FailSwallow(e) ==
    /\ callErr' = e
    /\ ret' = "nil"
    /\ pc' = "returned"
    /\ jobStream' = IF jobStream = "none" THEN "none" ELSE "closed"

\* return err (with the deferred stream.Close() once the stream is open)
Fail(e) ==
    /\ callErr' = e
    /\ ret' = e
    /\ pc' = "returned"
    /\ jobStream' = IF jobStream = "none" THEN "none" ELSE "closed"

\* stream, err := client.StreamJobEvents(d.AppID, 0, jobStream)
StreamJobEvents ==
    /\ UNCHANGED <<waitVars, streamVars, repoVars>>
    /\ pc = "start"
    /\ \/ /\ pc' = "getFormation"
          /\ jobStream' = "open"
          /\ UNCHANGED <<ret, callErr>>
       \/ Fail("ErrStreamJobEvents")
    /\ UNCHANGED <<stOld, stNew, f0, oldFormation, newFormation, todo, typ, num,
                   i, expected, consumed, lastEv, upWaits, downWaits, nPuts,
                   events, orderA, orderB>>

\* f, err := client.GetFormation(d.AppID, d.OldReleaseID)
GetFormation ==
    /\ UNCHANGED <<waitVars, streamVars, repoVars>>
    /\ pc = "getFormation"
    /\ \/ /\ oldFormation' = stOld
          /\ newFormation' = EmptyMap
          /\ todo' = DOMAIN stOld
          /\ pc' = "range"
          /\ UNCHANGED <<ret, callErr, jobStream>>
       \/ /\ Fail("ErrGetFormation")
          /\ UNCHANGED <<oldFormation, newFormation, todo>>
    /\ UNCHANGED <<stOld, stNew, f0, typ, num, i, expected, consumed, lastEv,
                   upWaits, downWaits, nPuts, events, orderA, orderB>>

\* The keys a range over a map may yield next: any key not yet visited (Go
\* leaves the iteration order of a map unspecified).
RangeKeys(S) == S

\* for typ, num := range f.Processes: the next key, in no specified order;
\* return nil once every key has been visited.  orderB records what a second
\* run of the same range, started from the same formation, yields.
RangeNext ==
    /\ UNCHANGED <<waitVars, streamVars, repoVars>>
    /\ pc = "range"
    /\ IF todo = {}
       THEN /\ pc' = "returned"
            /\ ret' = "nil"
            /\ jobStream' = "closed"
            /\ UNCHANGED <<todo, typ, num, i, orderA, orderB>>
       ELSE /\ \E t \in RangeKeys(todo) :
                 /\ typ' = t
                 /\ num' = oldFormation[t]
                 /\ todo' = todo \ {t}
                 /\ orderA' = Append(orderA, t)
            /\ \E tb \in RangeKeys(DOMAIN oldFormation \ Range(orderB)) :
                 orderB' = Append(orderB, tb)
            /\ i' = 0
            /\ pc' = "inner"
            /\ UNCHANGED <<ret, jobStream>>
    /\ UNCHANGED <<callErr, stOld, stNew, f0, oldFormation, newFormation,
                   expected, consumed, lastEv, upWaits, downWaits, nPuts, events>>

InnerCondLe(k, n) == k <= n

\* i < num
InnerCond(k, n) == k < n

StartOneNoWait ==
    /\ UNCHANGED <<waitVars, streamVars, repoVars>>
    /\ pc = "inner"
    /\ IF InnerCond(i, num)
       THEN /\ newFormation' = Incr(newFormation, typ)
            /\ nPuts' = nPuts + 1
            /\ \/ /\ stNew' = newFormation'
                  /\ pc' = "putOld"
                  /\ expected' = ExpectOne(typ, "up")
                  /\ consumed' = 0
                  /\ UNCHANGED <<ret, callErr, jobStream>>
               \/ /\ Fail("ErrPutFormation")
                  /\ UNCHANGED <<stNew, expected, consumed>>
       ELSE /\ pc' = "range"
            /\ UNCHANGED <<ret, callErr, jobStream, newFormation, nPuts, stNew,
                           expected, consumed>>
    /\ UNCHANGED <<stOld, f0, oldFormation, todo, typ, num, i, lastEv, upWaits,
                   downWaits, events, orderA, orderB>>

\* for i := 0; i < num; i++ { newFormation[typ]++; PutFormation(new) ...
StartOne ==
    /\ UNCHANGED <<waitVars, streamVars, repoVars>>
    /\ pc = "inner"
    /\ IF InnerCond(i, num)
       THEN /\ newFormation' = Incr(newFormation, typ)
            /\ nPuts' = nPuts + 1
            /\ \/ /\ stNew' = newFormation'
                  /\ pc' = "waitUp"
                  /\ expected' = ExpectOne(typ, "up")
                  /\ consumed' = 0
                  /\ UNCHANGED <<ret, callErr, jobStream>>
               \/ /\ Fail("ErrPutFormation")
                  /\ UNCHANGED <<stNew, expected, consumed>>
       ELSE /\ pc' = "range"
            /\ UNCHANGED <<ret, callErr, jobStream, newFormation, nPuts, stNew,
                           expected, consumed>>
    /\ UNCHANGED <<stOld, f0, oldFormation, todo, typ, num, i, lastEv, upWaits,
                   downWaits, events, orderA, orderB>>

UpReturnIgnoreErr(status) ==
    /\ pc' = "putOld"
    /\ UNCHANGED <<ret, callErr, jobStream>>

\* if _, _, err := waitForJobEvents(.. "up" ..); err != nil { return err }
WaitUpReturn(status) ==
    IF status = "ok"
    THEN /\ pc' = "putOld"
         /\ UNCHANGED <<ret, callErr, jobStream>>
    ELSE Fail(WaitErr(status))

DownReturnIgnoreErr(status) ==
    /\ pc' = "inner"
    /\ UNCHANGED <<ret, callErr, jobStream>>

\* if _, _, err := waitForJobEvents(.. "down" ..); err != nil { return err }
WaitDownReturn(status) ==
    IF status = "ok"
    THEN /\ pc' = "inner"
         /\ UNCHANGED <<ret, callErr, jobStream>>
    ELSE Fail(WaitErr(status))

\* The call site that receives the wait's result.
WaitReturn(status, site) ==
    IF site = "waitUp" THEN WaitUpReturn(status) ELSE WaitDownReturn(status)

\* The wait in flight takes one event from jobStream, or finds it closed.
WaitStep(site) ==
    \/ /\ jobStream = "open"
       /\ \E ev \in JobEvent :
            LET status == StatusAfter(expected, ev) IN
            /\ status = "waiting" => consumed < MaxIgnored
            /\ lastEv' = ev
            /\ consumed' = consumed + 1
            /\ expected' = Consume(expected, ev)
            /\ IF status = "waiting"
               THEN UNCHANGED <<pc, ret, callErr, jobStream>>
               ELSE WaitReturn(status, site)
    \/ /\ jobStream = "closed"
       /\ WaitReturn(OnClosed(expected), site)
       /\ UNCHANGED <<lastEv, consumed, expected>>

\* waitForJobEvents(jobStream, jobEvents{typ: {"up": 1}})
WaitUp ==
    /\ UNCHANGED <<waitVars, streamVars, repoVars>>
    /\ pc = "waitUp"
    /\ WaitStep("waitUp")
    /\ upWaits' = IF pc' = "putOld" THEN [upWaits EXCEPT ![typ] = @ + 1]
                  ELSE upWaits
    /\ UNCHANGED <<stOld, stNew, f0, oldFormation, newFormation, todo, typ, num,
                   i, downWaits, nPuts, events, orderA, orderB>>

\* oldFormation[typ]--; PutFormation(old)
StopOne ==
    /\ UNCHANGED <<waitVars, streamVars, repoVars>>
    /\ pc = "putOld"
    /\ oldFormation' = Decr(oldFormation, typ)
    /\ nPuts' = nPuts + 1
    /\ \/ /\ stOld' = oldFormation'
          /\ pc' = "waitDown"
          /\ expected' = ExpectOne(typ, "down")
          /\ consumed' = 0
          /\ UNCHANGED <<ret, callErr, jobStream>>
       \/ /\ Fail("ErrPutFormation")
          /\ UNCHANGED <<stOld, expected, consumed>>
    /\ UNCHANGED <<stNew, f0, newFormation, todo, typ, num, i, lastEv, upWaits,
                   downWaits, events, orderA, orderB>>

\* waitForJobEvents(jobStream, jobEvents{typ: {"down": 1}}); i++
WaitDown ==
    /\ UNCHANGED <<waitVars, streamVars, repoVars>>
    /\ pc = "waitDown"
    /\ WaitStep("waitDown")
    /\ downWaits' = IF pc' = "inner" THEN [downWaits EXCEPT ![typ] = @ + 1]
                    ELSE downWaits
    /\ i' = IF pc' = "inner" THEN i + 1 ELSE i
    /\ UNCHANGED <<stOld, stNew, f0, oldFormation, newFormation, todo, typ, num,
                   upWaits, nPuts, events, orderA, orderB>>

\* The job event source closes the stream under the engine.
SourceCloses ==
    /\ UNCHANGED <<waitVars, streamVars, repoVars>>
    /\ jobStream = "open"
    /\ pc # "returned"
    /\ jobStream' = "closed"
    /\ UNCHANGED <<pc, ret, callErr, stOld, stNew, f0, oldFormation,
                   newFormation, todo, typ, num, i, expected, consumed, lastEv,
                   upWaits, downWaits, nPuts, events, orderA, orderB>>

\* The matcher variables while the engine runs (no stand-alone wait).
IdleWait ==
    /\ wStart = EmptyMap
    /\ wExpected = EmptyMap
    /\ wTrace = <<>>
    /\ wStatus = "idle"

\* The stream variables while no stream is served.
IdleStream ==
    /\ log = <<>>
    /\ sPc = "idle"
    /\ pending = <<>>
    /\ currID = 0
    /\ sent = <<>>
    /\ sErr = "nil"
    /\ notifyQ = <<>>
    /\ lastWake = 0
    /\ nFetch = 0
    /\ connected = FALSE
    /\ done = FALSE
    /\ nCallbacks = 0
    /\ owed = {}
    /\ failedFirst = FALSE

Init == InitEngine /\ IdleWait /\ IdleStream /\ IdleRepo

Next ==
    \/ StreamJobEvents
    \/ GetFormation
    \/ RangeNext
    \/ StartOne
    \/ WaitUp
    \/ StopOne
    \/ WaitDown
    \/ SourceCloses

Spec == Init /\ [][Next]_vars

\* ------------------------------------------- a stand-alone matcher run
\* The engine is not running during a stand-alone matcher run.
IdleEngine ==
    /\ pc = "idle"
    /\ ret = "nil"
    /\ callErr = "nil"
    /\ stOld = EmptyMap
    /\ stNew = EmptyMap
    /\ f0 = EmptyMap
    /\ oldFormation = EmptyMap
    /\ newFormation = EmptyMap
    /\ todo = {}
    /\ typ = ""
    /\ num = 0
    /\ i = 0
    /\ expected = EmptyMap
    /\ consumed = 0
    /\ lastEv = NoEvent
    /\ jobStream = "none"
    /\ upWaits = [t \in Types |-> 0]
    /\ downWaits = [t \in Types |-> 0]
    /\ nPuts = 0
    /\ events = <<>>
    /\ orderA = <<>>
    /\ orderB = <<>>

\* Expected sets with at least one requirement.
ExpectedSets ==
    {e \in [Types -> [{"up", "down"} -> 0..MaxNeed]] : ~Satisfied(e)}

\* The events fed to a stand-alone run (the matcher does not read the release).
FedEvents == {e \in JobEvent : e.release = "new"}

InitWait ==
    /\ IdleEngine
    /\ IdleStream
    /\ IdleRepo
    /\ wStart \in ExpectedSets
    /\ wExpected = wStart
    /\ wTrace = <<>>
    /\ wStatus = "waiting"

\* The wait consumes the next event of the source.
Feed ==
    /\ wStatus = "waiting"
    /\ Len(wTrace) < MaxFeed
    /\ \E ev \in FedEvents :
         /\ wTrace' = Append(wTrace, ev)
         /\ wExpected' = Consume(wExpected, ev)
         /\ wStatus' = StatusAfter(wExpected, ev)
    /\ UNCHANGED <<wStart, engineVars, streamVars, repoVars>>

\* The source closes under the wait.
FeedClosed ==
    /\ wStatus = "waiting"
    /\ wStatus' = OnClosed(wExpected)
    /\ UNCHANGED <<wStart, wExpected, wTrace, engineVars, streamVars, repoVars>>

NextWait == Feed \/ FeedClosed

SpecWait == InitWait /\ [][NextWait]_vars

\* ------------------------------------------------ streamDeploymentEvents
Deployments == {"d1", "d2"}

\* The deployment whose events are streamed.
Subscribed == "d1"

\* w.Write([]byte(":\n")): a keep-alive, written 0 in sent.
KeepAlive == 0

\* repo.listEvents(deploymentID, 0)
SinceID == 0

RECURSIVE Perms(_)
\* Every order in which the rows of a set can come back.
Perms(S) ==
    IF S = {} THEN {<<>>}
    ELSE UNION {{<<x>> \o p : p \in Perms(S \ {x})} : x \in S}

\* WHERE deployment_id = $1 AND event_id > $2
MatchingRows(l, d, since) == {k \in 1..Len(l) : l[k] = d /\ k > since}

\* listEvents: the query has no ORDER BY, so the rows come in any order.
ListEvents(l, d, since) == Perms(MatchingRows(l, d, since))

\* if id <= currID { continue }
IsStale(id, cur) == id <= cur

\* The payload of a notification for event id: its decimal text.
Payload(id) == ToString(id)

\* A payload that is not a number.
Malformed == "x"

\* strconv.ParseInt(n.Extra, 10, 64)
ParseInt(p) ==
    IF \E n \in 0..MaxLog : ToString(n) = p
    THEN [ok |-> TRUE, id |-> CHOOSE n \in 0..MaxLog : ToString(n) = p]
    ELSE [ok |-> FALSE, id |-> 0]

\* The positions of the tail loop: at the select, before the test of the
\* keep-alive's err, before repo.getEvent and before sendDeploymentEvent.
TailPcs == {"tail", "tailKaTest", "tailFetch", "tailSend"}

ListeningInTailOnly(p) == p \in TailPcs

\* The positions before the tail loop at which the listener is live.
HeadPcs == {"list", "listTest", "catchup", "catchupTest", "kaTest"}

\* The LISTEN is in effect, and the listener's goroutine may call back, from
\* listener.Listen (before the catch-up query) until the stream has returned
\* and the deferred listener.Close() has run.
Listening(p) == p \in HeadPcs \cup TailPcs \cup {"returning"}

\* case <-connected: the select goes on to the keep-alive and the tail.
ConnectedReady(c, d) == c

InitStream ==
    /\ IdleEngine
    /\ IdleWait
    /\ IdleRepo
    /\ log = <<>>
    /\ sPc = "start"
    /\ pending = <<>>
    /\ currID = 0
    /\ sent = <<>>
    /\ sErr = "nil"
    /\ notifyQ = <<>>
    /\ lastWake = 0
    /\ nFetch = 0
    /\ connected = FALSE
    /\ done = FALSE
    /\ nCallbacks = 0
    /\ owed = {}
    /\ failedFirst = FALSE

\* An event is appended to the log (by any deployment's engine).
AppendEvent ==
    /\ Len(log) < MaxLog
    /\ \E d \in Deployments :
         /\ log' = Append(log, d)
         /\ owed' = IF d = Subscribed /\ Listening(sPc)
                    THEN owed \cup {Len(log) + 1} ELSE owed
    /\ UNCHANGED <<sPc, pending, currID, sent, sErr, notifyQ, lastWake, nFetch,
                   connected, done, nCallbacks, failedFirst, engineVars, waitVars, repoVars>>

\* pq.NewListener(...); listener.Listen("deployment_events:" + id)
Listen ==
    /\ sPc = "start"
    /\ sPc' = "list"
    /\ UNCHANGED <<log, pending, currID, sent, sErr, notifyQ, lastWake, nFetch,
                   connected, done, nCallbacks, owed, failedFirst, engineVars, waitVars, repoVars>>

\* events, err := repo.listEvents(deploymentID, 0): err is the function's
\* outer err, which every later err = ... of the main goroutine overwrites
\* and which the listener's callback writes from its own goroutine.
CatchUpQuery ==
    /\ sPc = "list"
    /\ sPc' = "listTest"
    /\ \/ /\ pending' \in ListEvents(log, Subscribed, SinceID)
          /\ sErr' = "nil"
       \/ /\ sErr' = "ErrQuery"
          /\ pending' = pending
    /\ UNCHANGED <<log, currID, sent, notifyQ, lastWake, nFetch, connected,
                   done, nCallbacks, owed, failedFirst, engineVars, waitVars, repoVars>>

\* if err != nil { return }  after listEvents: the test reads err as it is
\* now, which the callback may have written since the call returned.
CatchUpQueryTest ==
    /\ sPc = "listTest"
    /\ sPc' = IF sErr # "nil" THEN "returning" ELSE "catchup"
    /\ UNCHANGED <<log, pending, currID, sent, sErr, notifyQ, lastWake, nFetch,
                   connected, done, nCallbacks, owed, failedFirst, engineVars,
                   waitVars, repoVars>>

\* for _, e := range events { err = sendDeploymentEvent(e) ...
CatchUpSend ==
    /\ sPc = "catchup"
    /\ pending # <<>>
    /\ sPc' = "catchupTest"
    /\ \/ /\ sent' = Append(sent, Head(pending))
          /\ sErr' = "nil"
       \/ /\ sErr' = "ErrWrite"
          /\ sent' = sent
    /\ UNCHANGED <<log, pending, currID, notifyQ, lastWake, nFetch, connected,
                   done, nCallbacks, owed, failedFirst, engineVars, waitVars,
                   repoVars>>

\* ... if err != nil { return }; currID = e.ID }
CatchUpSendTest ==
    /\ sPc = "catchupTest"
    /\ IF sErr # "nil"
       THEN /\ sPc' = "returning"
            /\ UNCHANGED <<currID, pending>>
       ELSE /\ sPc' = "catchup"
            /\ currID' = Head(pending)
            /\ pending' = Tail(pending)
    /\ UNCHANGED <<log, sent, sErr, notifyQ, lastWake, nFetch, connected, done,
                   nCallbacks, owed, failedFirst, engineVars, waitVars, repoVars>>

\* select { case <-done: return; case <-connected: }; err = sendKeepAlive()
AwaitConnected ==
    /\ sPc = "catchup"
    /\ pending = <<>>
    /\ \/ /\ done
          /\ sPc' = "returning"
          /\ UNCHANGED <<sent, sErr>>
       \/ /\ ConnectedReady(connected, done)
          /\ sPc' = "kaTest"
          /\ \/ /\ sent' = Append(sent, KeepAlive)
                /\ sErr' = "nil"
             \/ /\ sErr' = "ErrWrite"
                /\ sent' = sent
    /\ UNCHANGED <<log, pending, currID, notifyQ, lastWake, nFetch, connected,
                   done, nCallbacks, owed, failedFirst, engineVars, waitVars, repoVars>>

\* if err = sendKeepAlive(); err != nil { return }: the test, before the
\* tail loop.
KeepAliveTest ==
    /\ sPc = "kaTest"
    /\ sPc' = IF sErr # "nil" THEN "returning" ELSE "tail"
    /\ UNCHANGED <<log, pending, currID, sent, sErr, notifyQ, lastWake, nFetch,
                   connected, done, nCallbacks, owed, failedFirst, engineVars,
                   waitVars, repoVars>>

\* case <-done: return   and   case <-closed: return
TailStop ==
    /\ sPc = "tail"
    /\ sPc' = "returning"
    /\ UNCHANGED <<log, pending, currID, sent, sErr, notifyQ, lastWake, nFetch,
                   connected, done, nCallbacks, owed, failedFirst, engineVars, waitVars, repoVars>>

\* case <-time.After(30 * time.Second): err = sendKeepAlive()
TailKeepAlive ==
    /\ sPc = "tail"
    /\ Len(sent) < MaxSent
    /\ sPc' = "tailKaTest"
    /\ \/ /\ sent' = Append(sent, KeepAlive)
          /\ sErr' = "nil"
       \/ /\ sErr' = "ErrWrite"
          /\ sent' = sent
    /\ UNCHANGED <<log, pending, currID, notifyQ, lastWake, nFetch, connected,
                   done, nCallbacks, owed, failedFirst, engineVars, waitVars, repoVars>>

\* if err = sendKeepAlive(); err != nil { return }: the test, in the tail.
TailKeepAliveTest ==
    /\ sPc = "tailKaTest"
    /\ sPc' = IF sErr # "nil" THEN "returning" ELSE "tail"
    /\ UNCHANGED <<log, pending, currID, sent, sErr, notifyQ, lastWake, nFetch,
                   connected, done, nCallbacks, owed, failedFirst, engineVars,
                   waitVars, repoVars>>

\* return: the deferred listener.Close() runs, then the deferred function
\* reads err and reports it if it is not nil.
DeferredClose ==
    /\ sPc = "returning"
    /\ sPc' = "closed"
    /\ UNCHANGED <<log, pending, currID, sent, sErr, notifyQ, lastWake, nFetch,
                   connected, done, nCallbacks, owed, failedFirst, engineVars,
                   waitVars, repoVars>>

\* case n := <-listener.Notify: take the notification and parse its
\* payload; return on a parse error, continue if id <= currID, else go on
\* to fetch the event.  The err of this case shadows the outer one.
TailNotify ==
    /\ sPc = "tail"
    /\ notifyQ # <<>>
    /\ notifyQ' = Tail(notifyQ)
    /\ LET parsed == ParseInt(Head(notifyQ)) IN
       IF ~parsed.ok
       THEN /\ sPc' = "returning"
            /\ UNCHANGED lastWake
       ELSE /\ lastWake' = parsed.id
            /\ sPc' = IF IsStale(parsed.id, currID) THEN "tail" ELSE "tailFetch"
    /\ UNCHANGED <<log, pending, currID, sent, sErr, nFetch, connected, done,
                   nCallbacks, owed, failedFirst, engineVars, waitVars, repoVars>>

\* e, err := repo.getEvent(id): a database round trip; return on an error.
TailFetch ==
    /\ sPc = "tailFetch"
    /\ nFetch' = nFetch + 1
    /\ \/ sPc' = "tailSend"
       \/ sPc' = "returning"
    /\ UNCHANGED <<log, pending, currID, sent, sErr, notifyQ, lastWake,
                   connected, done, nCallbacks, owed, failedFirst, engineVars,
                   waitVars, repoVars>>

\* err = sendDeploymentEvent(e): write the event; return on an error, else
\* back to the select.  currID is not assigned.
TailSend ==
    /\ sPc = "tailSend"
    /\ Len(sent) < MaxSent
    /\ \/ /\ sent' = Append(sent, lastWake)
          /\ sPc' = "tail"
       \/ /\ sPc' = "returning"
          /\ sent' = sent
    /\ UNCHANGED <<log, pending, currID, sErr, notifyQ, lastWake, nFetch,
                   connected, done, nCallbacks, owed, failedFirst, engineVars,
                   waitVars, repoVars>>

\* A notification for an event of the subscribed deployment reaches the
\* listener: at least once, in any order, possibly again.
Notify ==
    /\ Listening(sPc)
    /\ Len(notifyQ) < MaxQueue
    /\ \E id \in MatchingRows(log, Subscribed, 0) :
         /\ notifyQ' = Append(notifyQ, Payload(id))
         /\ owed' = owed \ {id}
    /\ UNCHANGED <<log, sPc, pending, currID, sent, sErr, lastWake, nFetch,
                   connected, done, nCallbacks, failedFirst, engineVars, waitVars, repoVars>>

\* Another client of the database notifies the channel with a payload that
\* is not an event id.
NotifyMalformed ==
    /\ Listening(sPc)
    /\ Len(notifyQ) < MaxQueue
    /\ notifyQ' = Append(notifyQ, Malformed)
    /\ UNCHANGED <<log, sPc, pending, currID, sent, sErr, lastWake, nFetch,
                   connected, done, nCallbacks, owed, failedFirst, engineVars,
                   waitVars, repoVars>>

\* listenEvent, on the listener's goroutine: close(connected), close(done),
\* or err = listenErr; close(done).  The write of err is not synchronised
\* with the main goroutine: it lands before or after any of its reads and
\* writes of err.  Closing a closed channel panics.
ListenerCallback ==
    /\ Listening(sPc)
    /\ nCallbacks < MaxCallbacks
    /\ nCallbacks' = nCallbacks + 1
    /\ \/ /\ IF connected THEN sPc' = "panicked" ELSE sPc' = sPc
          /\ connected' = TRUE
          /\ UNCHANGED <<done, sErr, failedFirst>>
       \/ /\ IF done THEN sPc' = "panicked" ELSE sPc' = sPc
          /\ done' = TRUE
          /\ UNCHANGED <<connected, sErr, failedFirst>>
       \/ /\ sErr' = "ErrListen"
          /\ IF done THEN sPc' = "panicked" ELSE sPc' = sPc
          /\ done' = TRUE
          /\ failedFirst' = (failedFirst \/ ~connected)
          /\ UNCHANGED connected
    /\ UNCHANGED <<log, pending, currID, sent, notifyQ, lastWake, nFetch, owed,
                   engineVars, waitVars, repoVars>>

NextStream ==
    \/ AppendEvent
    \/ Listen
    \/ CatchUpQuery
    \/ CatchUpQueryTest
    \/ CatchUpSend
    \/ CatchUpSendTest
    \/ AwaitConnected
    \/ KeepAliveTest
    \/ TailStop
    \/ TailKeepAlive
    \/ TailKeepAliveTest
    \/ DeferredClose
    \/ TailNotify
    \/ TailFetch
    \/ TailSend
    \/ Notify
    \/ NotifyMalformed
    \/ ListenerCallback

SpecStream == InitStream /\ [][NextStream]_vars

\* ---------------------------------------------------------- DeploymentRepo
\* postgres.CleanUUID: the id without its dashes.
CleanUUID(x) == IF x.fmt = "dashed" THEN [x EXCEPT !.fmt = "clean"] ELSE x

\* A uuid column stores the value of either text form and reads back dashed.
ParseUUID(x) == x.u
ColumnText(n) == [u |-> n, fmt |-> "dashed"]

\* json.Marshal(ct.DeployID{ID: deployment.ID})
Marshal(id) == [ID |-> id]

\* The deployments a caller passes to Add.
Inputs ==
    {[ID |-> id, AppID |-> "app", OldReleaseID |-> [u |-> 1, fmt |-> f],
      NewReleaseID |-> [u |-> 2, fmt |-> f], Strategy |-> st,
      CreatedAt |-> Null, FinishedAt |-> Null] :
        id \in {NoID} \cup WellFormed, f \in Formats, st \in Strategies}

NeedsIDAlways(id) == TRUE

\* if deployment.ID == ""
NeedsID(id) == id = NoID

\* random.UUID(): a uuid no row has, in dashed form.
RandomUUIDs == {ColumnText(n) : n \in UUIDs \ DOMAIN rows}

\* The row the INSERT writes for d at database time now; finished_at is not
\* among the inserted columns.
NewRow(d, now) ==
    [app |-> d.AppID, old |-> ParseUUID(d.OldReleaseID),
     new |-> ParseUUID(d.NewReleaseID), strategy |-> d.Strategy,
     createdAt |-> now, finishedAt |-> Null]

InitRepo ==
    /\ IdleEngine
    /\ IdleWait
    /\ IdleStream
    /\ rows = <<>>
    /\ jobs = <<>>
    /\ aPc = "ready"
    /\ aRet = "none"
    /\ input = ZeroDeployment
    /\ dep = ZeroDeployment
    /\ nAdds = 0
    /\ nEnq = [u \in UUIDs |-> 0]
    /\ enq0 = [u \in UUIDs |-> 0]
    /\ failedEnq = {}
    /\ executed = {}
    /\ gotArg = NoID
    /\ got = ZeroDeployment
    /\ gotErr = "none"

\* Add, lines 30-40: assign an id if there is none, INSERT ... RETURNING
\* created_at, return the error if the insert fails, else clean the ids.
AddInsert ==
    /\ aPc = "ready"
    /\ nAdds < MaxAdds
    /\ \E d \in Inputs :
         \E id \in IF NeedsID(d.ID) THEN RandomUUIDs ELSE {d.ID} :
           LET d1 == [d EXCEPT !.ID = id]
               n == ParseUUID(id)
           IN
           /\ input' = d
           /\ nAdds' = nAdds + 1
           /\ enq0' = nEnq
           /\ \/ /\ n \notin DOMAIN rows
                 /\ rows' = [u \in DOMAIN rows \cup {n} |->
                               IF u = n THEN NewRow(d1, nAdds') ELSE rows[u]]
                 /\ dep' = [d1 EXCEPT !.CreatedAt = nAdds',
                                      !.ID = CleanUUID(id),
                                      !.OldReleaseID = CleanUUID(@),
                                      !.NewReleaseID = CleanUUID(@)]
                 /\ aPc' = "inserted"
                 /\ aRet' = "none"
              \/ /\ dep' = d1
                 /\ aRet' = "ErrInsert"
                 /\ UNCHANGED <<rows, aPc>>
    /\ gotArg' = NoID
    /\ got' = ZeroDeployment
    /\ gotErr' = "none"
    /\ UNCHANGED <<jobs, nEnq, failedEnq, executed, engineVars, waitVars,
                   streamVars>>

AddEnqueueRollback ==
    /\ aPc = "inserted"
    /\ aPc' = "ready"
    /\ LET job == [type |-> "Deployment", args |-> Marshal(dep.ID)]
           n == ParseUUID(job.args.ID)
       IN
       \/ /\ jobs' = Append(jobs, job)
          /\ nEnq' = [nEnq EXCEPT ![n] = @ + 1]
          /\ aRet' = "nil"
          /\ UNCHANGED <<failedEnq, rows>>
       \/ /\ aRet' = "ErrEnqueue"
          /\ failedEnq' = failedEnq \cup {n}
          /\ rows' = [u \in DOMAIN rows \ {n} |-> rows[u]]
          /\ UNCHANGED <<jobs, nEnq>>
    /\ UNCHANGED <<input, dep, nAdds, enq0, executed, gotArg, got, gotErr,
                   engineVars, waitVars, streamVars>>

\* Add, lines 42-52: enqueue one job of type "Deployment" whose args are the
\* marshalled id; return the error if Enqueue fails, else nil.
AddEnqueue ==
    /\ aPc = "inserted"
    /\ aPc' = "ready"
    /\ LET job == [type |-> "Deployment", args |-> Marshal(dep.ID)]
           n == ParseUUID(job.args.ID)
       IN
       \/ /\ jobs' = Append(jobs, job)
          /\ nEnq' = [nEnq EXCEPT ![n] = @ + 1]
          /\ aRet' = "nil"
          /\ UNCHANGED failedEnq
       \/ /\ aRet' = "ErrEnqueue"
          /\ failedEnq' = failedEnq \cup {n}
          /\ UNCHANGED <<jobs, nEnq>>
    /\ UNCHANGED <<rows, input, dep, nAdds, enq0, executed, gotArg, got, gotErr,
                   engineVars, waitVars, streamVars>>

\* The external worker takes the oldest job and runs the deployment it names;
\* delivery is at least once, so the job may stay queued.
Work ==
    /\ jobs # <<>>
    /\ executed' = executed \cup {ParseUUID(Head(jobs).args.ID)}
    /\ \/ jobs' = Tail(jobs)
       \/ /\ ParseUUID(Head(jobs).args.ID) \notin executed
          /\ UNCHANGED jobs
    /\ UNCHANGED <<rows, aPc, aRet, input, dep, nAdds, nEnq, enq0, failedEnq,
                   gotArg, got, gotErr, engineVars, waitVars, streamVars>>

ScanErrNoRows(found) == IF found THEN "nil" ELSE "ErrNoRows"

\* scanDeployment: if err == sql.ErrNoRows { err = ErrNotFound }
ScanErr(found) == IF found THEN "nil" ELSE "ErrNotFound"

\* scanDeployment: the selected columns of row n, ids cleaned.
ScanRow(n) ==
    [ID |-> CleanUUID(ColumnText(n)), AppID |-> rows[n].app,
     OldReleaseID |-> CleanUUID(ColumnText(rows[n].old)),
     NewReleaseID |-> CleanUUID(ColumnText(rows[n].new)),
     Strategy |-> rows[n].strategy, CreatedAt |-> rows[n].createdAt,
     FinishedAt |-> rows[n].finishedAt]

\* Get, lines 55-71: SELECT ... WHERE deployment_id = $1, then scanDeployment.
GetDeployment ==
    /\ aPc # "idle"
    /\ \E id \in WellFormed :
         LET found == ParseUUID(id) \in DOMAIN rows IN
         /\ gotArg' = id
         /\ \/ /\ gotErr' = ScanErr(found)
               /\ got' = IF found THEN ScanRow(ParseUUID(id)) ELSE ZeroDeployment
            \/ /\ gotErr' = "ErrQuery"
               /\ got' = ZeroDeployment
    /\ UNCHANGED <<rows, jobs, aPc, aRet, input, dep, nAdds, nEnq, enq0,
                   failedEnq, executed, engineVars, waitVars, streamVars>>

NextRepo == AddInsert \/ AddEnqueue \/ Work \/ GetDeployment

SpecRepo == InitRepo /\ [][NextRepo]_vars

\* ---------------------------------------------------------------- claims

\* C1: for every process type, the count last written for the new release
\* plus the count last written (or originally read) for the old release is
\* N or N+1, N being the type's count when the deployment started, and
\* neither count is negative.
C1_SumIsNOrNPlus1 ==
    \A t \in Types :
        /\ Get(stNew, t) + Get(stOld, t) \in {Get(f0, t), Get(f0, t) + 1}
        /\ Get(stNew, t) >= 0
        /\ Get(stOld, t) >= 0

\* The second unit of a type is starting while the old release still has it.
C1_Witness ==
    \E t \in Types :
        /\ nPuts >= 3
        /\ Get(stNew, t) = 2
        /\ Get(stNew, t) + Get(stOld, t) = Get(f0, t) + 1

\* C2: a run that returns nil has made exactly N successful up waits and N
\* successful down waits for every type, N being the type's starting count.
C2_WaitsPerType ==
    (pc = "returned" /\ ret = "nil") =>
        \A t \in Types : upWaits[t] = Get(f0, t) /\ downWaits[t] = Get(f0, t)

C2_Witness ==
    /\ pc = "returned"
    /\ ret = "nil"
    /\ DOMAIN f0 = Types
    /\ f0["worker"] = 0
    /\ upWaits["web"] = 2
    /\ downWaits["web"] = 2
    /\ upWaits["worker"] = 0

\* C3: a run that returns nil leaves the old release at 0 for every type and
\* the new release at the count the old release started with.
C3_FinalFormations ==
    (pc = "returned" /\ ret = "nil") =>
        \A t \in Types : Get(stOld, t) = 0 /\ Get(stNew, t) = Get(f0, t)

C3_Witness ==
    /\ pc = "returned"
    /\ ret = "nil"
    /\ DOMAIN f0 = Types
    /\ f0["web"] = 2
    /\ f0["worker"] = 1
    /\ stNew = f0
    /\ stOld = [t \in Types |-> 0]

ConfirmedSteps == SumOver(upWaits, Types) + SumOver(downWaits, Types)

\* C4: every successful wait has put exactly one DeploymentEvent on the
\* events channel, the events alternate up/down, and a run that returns nil
\* has sent twice as many events as the formation had units.
C4_OneEventPerConfirmedStep ==
    /\ Len(events) = ConfirmedSteps
    /\ \A k \in 1..Len(events) :
         events[k].state = (IF k % 2 = 1 THEN "up" ELSE "down")
    /\ (pc = "returned" /\ ret = "nil") => Len(events) = 2 * Total(f0)

\* C5: a failing step makes oneByOne return that error without writing a
\* formation in the failing step, and once a step has failed no PutFormation
\* is issued and neither release's formation changes.
C5_ErrorStopsWithoutRollback ==
    [][ /\ (callErr' # "nil" =>
              /\ pc' = "returned"
              /\ ret' = callErr'
              /\ stOld' = stOld
              /\ stNew' = stNew)
        /\ (callErr # "nil" => nPuts' = nPuts) ]_vars

\* A PutFormation failed after earlier ones had succeeded.
C5_Witness ==
    /\ pc = "returned"
    /\ ret = "ErrPutFormation"
    /\ nPuts >= 3
    /\ Get(stNew, "web") = 1
    /\ Get(stOld, "web") = 1

\* C6: the wait takes one event per step; an event whose (type, state) is
\* still required lowers that count by one, any other event that is not a
\* crash changes nothing and keeps the wait going, and the wait has
\* succeeded exactly when every count is zero.  Expected {web: {up: 2}} fed
\* [worker:up, web:up, web:down, web:up] succeeds on the last event.
C6_Start == [t \in Types |-> [s \in {"up", "down"} |->
                IF t = "web" /\ s = "up" THEN 2 ELSE 0]]

C6_Fed == << [type |-> "worker", state |-> "up", release |-> "new"],
             [type |-> "web", state |-> "up", release |-> "new"],
             [type |-> "web", state |-> "down", release |-> "new"],
             [type |-> "web", state |-> "up", release |-> "new"] >>

C6_MatcherCounts ==
    [][ wTrace' # wTrace =>
          LET ev == wTrace'[Len(wTrace')]
              need == IF ev.state \in DOMAIN wExpected[ev.type]
                      THEN wExpected[ev.type][ev.state] ELSE 0
          IN
          /\ wTrace' = Append(wTrace, ev)
          /\ (ev.state # "crashed" /\ need > 0) =>
                /\ wExpected'[ev.type][ev.state] = need - 1
                /\ \A t \in Types : \A s \in {"up", "down"} :
                     <<t, s>> # <<ev.type, ev.state>> =>
                        wExpected'[t][s] = wExpected[t][s]
          /\ (ev.state # "crashed" /\ need = 0) =>
                /\ wExpected' = wExpected
                /\ wStatus' = "waiting"
          /\ (wStatus' = "ok") <=>
                (\A t \in Types : \A s \in {"up", "down"} : wExpected'[t][s] = 0)
          /\ (wStart = C6_Start /\ wTrace' = C6_Fed) =>
                (wStatus = "waiting" /\ wStatus' = "ok") ]_vars

C6_Witness ==
    /\ wStart = C6_Start
    /\ wTrace = C6_Fed
    /\ wStatus = "ok"

\* C7: a crashed event taken by an unresolved wait, of any type, fails the
\* wait at once: oneByOne returns the crash error, and after it has returned
\* no further event is taken from the stream.
C7_CrashAborts ==
    [][ /\ (pc \in Waits /\ consumed' = consumed + 1
                /\ lastEv'.state = "crashed") =>
              (pc' = "returned" /\ ret' = "ErrCrashed")
        /\ (pc = "returned" => (consumed' = consumed /\ lastEv' = lastEv)) ]_vars

\* The crash was of a type the wait did not expect.
C7_Witness ==
    /\ pc = "returned"
    /\ ret = "ErrCrashed"
    /\ lastEv.state = "crashed"
    /\ lastEv.type \notin DOMAIN expected

\* C8: a wait whose source is closed fails (it never succeeds), and a wait
\* ends only on a match, on a crash or on the closure of the source.
C8_WaitEnds ==
    [][ (pc \in Waits /\ pc' # pc) =>
          \/ /\ jobStream = "open"
             /\ consumed' = consumed + 1
             /\ lastEv'.type = typ
             /\ lastEv'.state = (IF pc = "waitUp" THEN "up" ELSE "down")
             /\ pc' = (IF pc = "waitUp" THEN "putOld" ELSE "inner")
             /\ ret' = "nil"
          \/ /\ jobStream = "open"
             /\ consumed' = consumed + 1
             /\ lastEv'.state = "crashed"
             /\ pc' = "returned"
             /\ ret' = "ErrCrashed"
          \/ /\ jobStream = "closed"
             /\ pc' = "returned"
             /\ ret' = "ErrClosed" ]_vars

\* The source closed under a down wait whose expectation was unmet.
C8_Witness ==
    /\ pc = "returned"
    /\ ret = "ErrClosed"
    /\ Remaining(expected, typ, "down") = 1

\* The ids of the events in a stream, keep-alives left out.
EventIds(s) == SelectSeq(s, LAMBDA x : x # KeepAlive)

\* The records written before the first keep-alive: the catch-up.
CatchUpPart(s) ==
    IF \E k \in 1..Len(s) : s[k] = KeepAlive
    THEN SubSeq(s, 1, (CHOOSE k \in 1..Len(s) :
                          s[k] = KeepAlive /\ \A j \in 1..(k - 1) : s[j] # KeepAlive) - 1)
    ELSE s

StrictlyIncreasing(q) == \A j, k \in 1..Len(q) : j < k => q[j] < q[k]

\* The id the catch-up ended on (0 if it emitted nothing).
CatchUpLast(s) ==
    IF CatchUpPart(s) = <<>> THEN 0 ELSE CatchUpPart(s)[Len(CatchUpPart(s))]

\* C9: whatever wake-ups arrive, the event ids the subscriber is sent are
\* strictly increasing, each id at most once (stated for the streams whose
\* catch-up came out in ascending order, so that only wake-ups can break it).
C9_StrictlyIncreasingIds ==
    StrictlyIncreasing(CatchUpPart(sent)) => StrictlyIncreasing(EventIds(sent))

\* The highest id the catch-up emitted (0 if it emitted nothing).
CatchUpMax(s) ==
    IF CatchUpPart(s) = <<>> THEN 0
    ELSE CHOOSE m \in Range(CatchUpPart(s)) : \A k \in Range(CatchUpPart(s)) : k <= m

\* C10: once the catch-up has emitted its events up to id X (the highest id
\* it emitted, 0 if none), a wake-up taken in the tail with an id <= X causes
\* no emission and no fetch, and the tail continues.
C10_StaleWakeUpDiscarded ==
    [][ (sPc = "tail" /\ notifyQ # <<>> /\ notifyQ' = Tail(notifyQ)
            /\ ParseInt(Head(notifyQ)).ok
            /\ ParseInt(Head(notifyQ)).id <= CatchUpMax(sent)) =>
          (sent' = sent /\ nFetch' = nFetch /\ sPc' = "tail") ]_vars

\* The event ids among the notifications waiting in listener.Notify.
QueuedIds == {ParseInt(p).id : p \in {q \in Range(notifyQ) : ParseInt(q).ok}}

\* The stream has ended or is about to: it has returned, the process has
\* panicked, or the err about to be tested is not nil.
Ending ==
    \/ sPc \in {"returning", "closed", "panicked"}
    \/ sPc \in {"listTest", "catchupTest", "kaTest", "tailKaTest"} /\ sErr # "nil"

\* An event of the subscribed deployment is not lost: it has been sent, or
\* the catch-up still has it to send or to read, or the tail has taken its
\* wake-up and is fetching or writing it, or its wake-up is due or waiting
\* and will pass the id <= currID test (or the stream has ended).
Deliverable(k) ==
    \/ sPc \in {"start", "list"}
    \/ Ending
    \/ k \in Range(sent)
    \/ sPc \in {"listTest", "catchup", "catchupTest"} /\ k \in Range(pending)
    \/ sPc \in {"tailFetch", "tailSend"} /\ k = lastWake
    \/ /\ k \in owed \cup QueuedIds
       /\ k > currID
       /\ \A p \in Range(pending) : k > p

NoEventLost == \A k \in MatchingRows(log, Subscribed, SinceID) : Deliverable(k)

C12_CatchUpExactAscending ==
    /\ StrictlyIncreasing(CatchUpPart(sent))
    /\ Range(CatchUpPart(sent)) \subseteq MatchingRows(log, Subscribed, SinceID)
    /\ sPc = "catchup" =>
         /\ MatchingRows(log, Subscribed, SinceID) \subseteq
               Range(sent) \cup Range(pending) \cup owed \cup QueuedIds
         /\ pending = <<>> => currID = CatchUpLast(sent)

\* C13: no keep-alive and no live event is emitted before connected has
\* been signalled, and when a connection attempt has failed before the
\* subscription was ready the stream never enters the tail loop and ends
\* with an error.
C13_HardErrorBeforeReady ==
    /\ (KeepAlive \in Range(sent) \/ nFetch > 0) => connected
    /\ failedFirst => (sPc \notin TailPcs /\ KeepAlive \notin Range(sent))
    /\ (failedFirst /\ sPc = "closed") => sErr # "nil"

\* C20: whatever lifecycle callbacks the listener delivers, connected and
\* done are each closed at most once: the callback never closes a closed
\* channel, so it never panics.
C20_ChannelsClosedOnce == sPc # "panicked"

\* C17: the steps of a run are strictly sequential: no PutFormation is
\* issued and no formation changes while a wait is unresolved; the old
\* release's count for the type is lowered only when every unit added to the
\* new release has been confirmed up, and the new release's count is raised
\* only when every unit confirmed up has also been confirmed down.
C17_StrictlySequential ==
    [][ /\ pc \in Waits => (nPuts' = nPuts /\ stOld' = stOld /\ stNew' = stNew)
        /\ stOld' # stOld =>
             /\ upWaits[typ] = Get(stNew, typ)
             /\ downWaits[typ] = upWaits[typ] - 1
        /\ stNew' # stNew =>
             /\ upWaits[typ] = Get(stNew, typ)
             /\ downWaits[typ] = upWaits[typ] ]_vars

\* The second unit of a type is waiting for its down event.
C17_Witness ==
    /\ pc = "waitDown"
    /\ nPuts = 4
    /\ upWaits[typ] = 2
    /\ downWaits[typ] = 1
    /\ Get(stNew, typ) = 2
    /\ Get(stOld, typ) = Get(f0, typ) - 2

\* The types of a visiting order for which PutFormation calls are issued.
Putting(order) == SelectSeq(order, LAMBDA t : Get(f0, t) > 0)

\* C18: two runs started from the same formation and fed the same events
\* issue the same PutFormation calls in the same order, that is, they visit
\* the types that have units in the same order.
C18_SameOrderInBothRuns == Putting(orderA) = Putting(orderB)

\* C19: an up wait is confirmed only by an up event of the type from the
\* new release, and a down wait only by a down event of the type from the
\* old release.
C19_ConfirmedByRightRelease ==
    [][ /\ (pc = "waitUp" /\ pc' = "putOld") =>
              (lastEv'.type = typ /\ lastEv'.state = "up"
                 /\ lastEv'.release = "new")
        /\ (pc = "waitDown" /\ pc' = "inner") =>
              (lastEv'.type = typ /\ lastEv'.state = "down"
                 /\ lastEv'.release = "old") ]_vars

JobIds == {ParseUUID(jobs[k].args.ID) : k \in 1..Len(jobs)}

\* C14: Add assigns an id only when the deployment has none, inserts the row
\* before it enqueues, and a successful Add has enqueued exactly one job of
\* type "Deployment" whose payload is the deployment's id; an Add whose
\* insert failed has enqueued nothing.
C14_InsertThenEnqueueOnce ==
    /\ \A k \in 1..Len(jobs) :
         /\ jobs[k].type = "Deployment"
         /\ ParseUUID(jobs[k].args.ID) \in DOMAIN rows
    /\ (aPc = "ready" /\ aRet = "nil") =>
         LET n == ParseUUID(dep.ID) IN
         /\ n \in DOMAIN rows
         /\ nEnq = [enq0 EXCEPT ![n] = 1]
         /\ enq0[n] = 0
         /\ input.ID # NoID => n = ParseUUID(input.ID)
         /\ dep.ID # NoID
    /\ (aPc = "ready" /\ aRet = "ErrInsert") =>
         /\ nEnq = enq0
         /\ input.ID # NoID => dep.ID = input.ID

\* An Add with a supplied dashed id succeeded; its job is still queued.
C14_Witness ==
    /\ aPc = "ready"
    /\ aRet = "nil"
    /\ input.ID # NoID
    /\ input.ID.fmt = "dashed"
    /\ jobs = <<[type |-> "Deployment", args |-> Marshal(dep.ID)]>>

\* C15: when Enqueue fails after the insert, Add returns an error, the row
\* stays, no job exists for the deployment, none is enqueued later and no
\* worker ever executes it.
C15_FailedEnqueueNeverRuns ==
    /\ \A n \in failedEnq :
         /\ n \in DOMAIN rows
         /\ nEnq[n] = 0
         /\ n \notin JobIds
         /\ n \notin executed
    /\ (aPc = "ready" /\ aRet = "ErrEnqueue") =>
         /\ ParseUUID(dep.ID) \in DOMAIN rows
         /\ ParseUUID(dep.ID) \notin JobIds

\* A deployment whose Enqueue failed is added again under the same id and
\* the insert fails.
C15_Witness ==
    /\ aPc = "ready"
    /\ aRet = "ErrInsert"
    /\ ParseUUID(input.ID) \in failedEnq

\* C16: after a successful Add of a deployment without an id, Get with the
\* assigned id returns the id, app, releases and strategy of the added
\* deployment with a creation timestamp and a null finishedAt; Get for an id
\* that no row has returns ErrNotFound.
C16_GetReturnsWhatAddStored ==
    /\ ( /\ aPc = "ready"
         /\ aRet = "nil"
         /\ input.ID = NoID
         /\ gotArg = dep.ID
         /\ gotErr \notin {"none", "ErrQuery"} ) =>
           /\ gotErr = "nil"
           /\ got = dep
           /\ got.AppID = input.AppID
           /\ ParseUUID(got.OldReleaseID) = ParseUUID(input.OldReleaseID)
           /\ ParseUUID(got.NewReleaseID) = ParseUUID(input.NewReleaseID)
           /\ got.Strategy = input.Strategy
           /\ got.CreatedAt # Null
           /\ got.FinishedAt = Null
    /\ ( /\ gotErr \notin {"none", "ErrQuery"}
         /\ ParseUUID(gotArg) \notin DOMAIN rows ) =>
           /\ gotErr = "ErrNotFound"

\* The second Add was given no id and dashed release ids, and Get was then
\* called with the id it assigned.
C16_Witness ==
    /\ aPc = "ready"
    /\ aRet = "nil"
    /\ nAdds = 2
    /\ input.ID = NoID
    /\ input.OldReleaseID.fmt = "dashed"
    /\ gotArg = dep.ID
    /\ gotErr = "nil"

====
